---- MODULE Spec2Model ----
(***************************************************************************)
(* A model of menu.py of IEP (pyzo): the menu items and their callbacks,   *)
(* the menu path names under which shortcuts are stored, the key mapping   *)
(* dialogs, and the Run menu's cell selection.                             *)
(*                                                                         *)
(* A Python str is modelled as a sequence of one-character strings, so     *)
(* that split, join, lower, replace and re.sub are computed character by   *)
(* character the way the code computes them.                               *)
(***************************************************************************)
EXTENDS Integers, Sequences, FiniteSets, TLC

VARIABLES
    \* ---- key mapping (KeyMapper, KeymappingDialog, KeyMapEditDialog)
    shortcuts,      \* iep.config.shortcuts: dict from full name to "s1,s2"
    active,         \* QAction.shortcuts() of every menu action
    platform,       \* sys.platform == 'darwin' or not
    dlg,            \* "closed" | "keymap" (KeymappingDialog) | "edit" (KeyMapEditDialog)
    fullname,       \* KeyMapEditDialog._fullname
    isprimary,      \* KeyMapEditDialog._isprimary
    line,           \* KeyMapLineEdit._shortcut
    nativeKeys,     \* KeyMapLineEdit._nativeKeys
    label,          \* what KeyMapEditDialog._label shows
    applies,        \* the number of Apply clicks so far
    keyOp           \* the last key mapping operation and its arguments

keyVars == <<shortcuts, active, platform, dlg, fullname, isprimary, line,
             nativeKeys, label, applies, keyOp>>

VARIABLES
    \* ---- the menus and the path names of their actions
    items,              \* the actions of the menus built: titles, text, menuPath
    shellConfigs,       \* iep.config.shellConfigs: the names of the configurations
    shellCreateActions, \* ShellMenu._shellCreateActions: text, menuPath
    pathOp              \* the last operation on the menus

pathVars == <<items, shellConfigs, shellCreateActions, pathOp>>

VARIABLES
    \* ---- the items of one menu and their callbacks
    actions,        \* the QActions of the menu, in the order they were added
    groups,         \* Menu._groups: group |-> (QActionGroup, dict value -> action)
    calls,          \* the calls of callbacks that the last operation made
    itemOp          \* the last operation on the menu and its arguments

itemVars == <<actions, groups, calls, itemOp>>

VARIABLES
    \* ---- the Run menu (RunMenu)
    hasShell,       \* iep.shells.getCurrentShell() is not None
    hasEditor,      \* iep.editors.getCurrentEditor() is not None
    document,       \* the blocks (lines) of the editor's document
    textCursor,     \* the position of editor.textCursor() in the document
    textAnchor,     \* the anchor of editor.textCursor(): where its selection began
    executed,       \* the calls of shell.executeCode that the last operation made
    warning,        \* the messages of the warning dialog it showed
    cellOp,         \* the last operation of the Run menu and its arguments
    editorFilename, \* _filename of the current editor ("": not in the file system)
    mainEditor,     \* iep.editors.getMainEditor(): whether there is one, its _filename
    found,          \* the pair that getShellAndEditor returned to the last operation
    scriptLog,      \* the calls of iep.editors.saveFile and shell.restart it made, in order
    scriptWarning   \* the warning dialog that _runScript showed

cellVars == <<hasShell, hasEditor, document, textCursor, textAnchor, executed,
              warning, cellOp, editorFilename, mainEditor, found, scriptLog,
              scriptWarning>>

VARIABLES
    \* ---- the tree of the key mapping dialog (KeyMapModel)
    treeRoot,       \* KeyMapModel._root
    treeFrom,       \* the parent index that the last index was asked under
    treeIndex,      \* the index that index(row, column, parent) returned last
    treeParent,     \* what parent(index) returned for it
    treeOp          \* the last operation on the model

treeVars == <<treeRoot, treeFrom, treeIndex, treeParent, treeOp>>

vars == <<keyVars, pathVars, itemVars, cellVars, treeVars>>

\* What an operation on one part leaves alone: the other parts.
notKeyVars == <<pathVars, itemVars, cellVars, treeVars>>
notPathVars == <<keyVars, itemVars, cellVars, treeVars>>
notItemVars == <<keyVars, pathVars, cellVars, treeVars>>
notCellVars == <<keyVars, pathVars, itemVars, treeVars>>
notTreeVars == <<keyVars, pathVars, itemVars, cellVars>>

----
\* ------------------------------------------------------------------ str

\* The printable ASCII characters, chr(32) .. chr(126), in order (chr(96) is
\* written BACKTICK).
Ascii ==
    <<" ", "!", "\"", "#", "$", "%", "&", "'", "(", ")", "*", "+", ",", "-",
      ".", "/", "0", "1", "2", "3", "4", "5", "6", "7", "8", "9", ":", ";",
      "<", "=", ">", "?", "@", "A", "B", "C", "D", "E", "F", "G", "H", "I",
      "J", "K", "L", "M", "N", "O", "P", "Q", "R", "S", "T", "U", "V", "W",
      "X", "Y", "Z", "[", "\\", "]", "^", "_", "BACKTICK", "a", "b", "c", "d", "e",
      "f", "g", "h", "i", "j", "k", "l", "m", "n", "o", "p", "q", "r", "s",
      "t", "u", "v", "w", "x", "y", "z", "{", "|", "}", "~">>

\* ord(c) and chr(n) on the printable ASCII characters.
OrdTable ==
    [c \in {Ascii[i] : i \in 1..Len(Ascii)} |->
        31 + (CHOOSE i \in 1..Len(Ascii) : Ascii[i] = c)]

Ord(c) == OrdTable[c]

Chr(n) == Ascii[n - 31]

\* str.lower() and str.upper(), one character.
LowerChar(c) ==
    IF c \in {"\n"} THEN c
    ELSE IF Ord(c) >= 65 /\ Ord(c) <= 90 THEN Chr(Ord(c) + 32) ELSE c

UpperChar(c) ==
    IF c \in {"\n"} THEN c
    ELSE IF Ord(c) >= 97 /\ Ord(c) <= 122 THEN Chr(Ord(c) - 32) ELSE c

\* str.lower()
Lower(s) == [i \in 1..Len(s) |-> LowerChar(s[i])]

\* str.upper()
Upper(s) == [i \in 1..Len(s) |-> UpperChar(s[i])]

\* s.replace(old, new) for a one-character old; new is a str.
RECURSIVE ReplaceChar(_, _, _)
ReplaceChar(s, old, new) ==
    IF s = <<>> THEN <<>>
    ELSE (IF Head(s) = old THEN new ELSE <<Head(s)>>)
             \o ReplaceChar(Tail(s), old, new)

\* s.count(c) for a one-character c.
RECURSIVE Count(_, _)
Count(s, c) ==
    IF s = <<>> THEN 0
    ELSE (IF Head(s) = c THEN 1 ELSE 0) + Count(Tail(s), c)

\* s.split(c) for a one-character c: the list of the pieces, one more than
\* the number of c in s.
RECURSIVE Split(_, _)
Split(s, c) ==
    IF \A i \in 1..Len(s) : s[i] # c THEN <<s>>
    ELSE LET i == CHOOSE j \in 1..Len(s) :
                      s[j] = c /\ \A h \in 1..(j - 1) : s[h] # c
         IN  <<SubSeq(s, 1, i - 1)>> \o Split(SubSeq(s, i + 1, Len(s)), c)

\* sep.join(list)
RECURSIVE Join(_, _)
Join(list, sep) ==
    IF list = <<>> THEN <<>>
    ELSE IF Len(list) = 1 THEN list[1]
    ELSE list[1] \o sep \o Join(Tail(list), sep)

\* a + b for a dict: the entry key |-> value set in d.
DictSet(d, key, value) == (key :> value) @@ d

\* del d[key]
DictDel(d, key) == [x \in DOMAIN d \ {key} |-> d[x]]

\* ------------------------------------------------------- menu path names

\* A str written out, for the menu titles and action texts used below.
sFile == <<"F", "i", "l", "e">>
sEdit == <<"E", "d", "i", "t">>
sSave == <<"S", "a", "v", "e">>
sCopy == <<"C", "o", "p", "y">>
sShell == <<"S", "h", "e", "l", "l">>
sIndentation == <<"I", "n", "d", "e", "n", "t", "a", "t", "i", "o", "n">>

IsPrintable(c) == c \in DOMAIN OrdTable

\* As SubBracketsLine, but with the lazy pattern '\(.*?\)': every match ends at
\* the first ")" after its "(".
RECURSIVE SubBracketsLineLazy(_)
SubBracketsLineLazy(l) ==
    LET opens  == {i \in 1..Len(l) : l[i] = "("}
    IN  IF \E i \in opens : \E j \in (i + 1)..Len(l) : l[j] = ")"
        THEN LET i == CHOOSE x \in opens : \A y \in opens : x <= y
                 j == CHOOSE x \in (i + 1)..Len(l) :
                          l[x] = ")" /\ \A y \in (i + 1)..(x - 1) : l[y] # ")"
             IN  SubSeq(l, 1, i - 1) \o SubBracketsLineLazy(SubSeq(l, j + 1, Len(l)))
        ELSE l

\* re.sub('\(.*\)', '', l) on one line l (no line break in it): the match
\* starts at the first "(" that has a ")" after it and, .* being greedy,
\* ends at the last ")" of the line; nothing after it can match again.
SubBracketsLine(l) ==
    LET opens  == {i \in 1..Len(l) : l[i] = "("}
        closes == {j \in 1..Len(l) : l[j] = ")"}
    IN  IF \E i \in opens, j \in closes : i < j
        THEN LET i == CHOOSE x \in opens : \A y \in opens : x <= y
                 j == CHOOSE x \in closes : \A y \in closes : y <= x
             IN  SubSeq(l, 1, i - 1) \o SubSeq(l, j + 1, Len(l))
        ELSE l

\* re.sub('\(.*\)', '', text): "." matches no line break, so every line of
\* the text is matched on its own.
SubBrackets(text) ==
    LET lines == Split(text, "\n")
    IN  Join([i \in 1..Len(lines) |-> SubBracketsLine(lines[i])], <<"\n">>)

\* A character the class [^a-zA-z_0-9] does not match: a digit, or one of
\* chr(65) .. chr(122) (the range A-z: the letters and [ \ ] ^ _ and chr(96)).
KeptChar(c) ==
    /\ IsPrintable(c)
    /\ \/ (Ord(c) >= 48 /\ Ord(c) <= 57)
       \/ (Ord(c) >= 65 /\ Ord(c) <= 122)

\* re.sub('[^a-zA-z_0-9]', '', name)
RECURSIVE SubInvalid(_)
SubInvalid(name) ==
    IF name = <<>> THEN <<>>
    ELSE (IF KeptChar(Head(name)) THEN <<Head(name)>> ELSE <<>>)
             \o SubInvalid(Tail(name))

\* Menu._createMenuPathName(name). name[0] raises IndexError on an empty
\* str, so the operator is used only where the str is not empty there.
CreateMenuPathName(name) ==
    LET n1 == SubBrackets(name)
        n2 == ReplaceChar(n1, " ", <<"_">>)
        n3 == IF n2[1] \in {"0", "1", "2", "3", "4", "5", "6", "7", "8", "9", "_"}
              THEN <<"_">> \o n2 ELSE n2
    IN  Lower(SubInvalid(n3))

\* Menu.__init__: the menuPath of a menu whose enclosing menus and own
\* title are titles (the top-level menu first); the menu bar has no menuPath.
RECURSIVE MenuMenuPath(_)
MenuMenuPath(titles) ==
    IF Len(titles) = 1 THEN CreateMenuPathName(titles[1])
    ELSE MenuMenuPath(SubSeq(titles, 1, Len(titles) - 1)) \o <<"_", "_">>
             \o CreateMenuPathName(titles[Len(titles)])

\* Menu._connectActionShortcut: a.menuPath of an action with the given text
\* in the menu with the given titles.
ActionMenuPath(titles, text) ==
    MenuMenuPath(titles) \o <<"_", "_">> \o CreateMenuPathName(text)

\* getFullName(action): the titles of the enclosing menus (item.parent()
\* while it is a QMenu) joined by '__' before the text, then converted.
GetFullName(titles, text) ==
    LET t0 == Join(titles \o <<text>>, <<"_", "_">>)
        t1 == SubBrackets(t0)
        t2 == ReplaceChar(t1, " ", <<"_">>)
        t3 == IF t2[1] \in {"0", "1", "2", "3", "4", "5", "6", "7", "8", "9"}
              THEN <<"_">> \o t2 ELSE t2
    IN  Lower(SubInvalid(t3))

\* ------------------------------------------------------------ key mapping

\* The largest number of Apply clicks (KeyMapEditDialog.onAccept) of a run.
MaxApply == 2

sCtrl == <<"C", "t", "r", "l", "+">>
sShift == <<"S", "h", "i", "f", "t", "+">>
sAlt == <<"A", "l", "t", "+">>
sMeta == <<"M", "e", "t", "a", "+">>
sF5 == <<"F", "5">>

EmptyDict == [x \in {} |-> x]

\* The menu actions whose shortcuts are edited: File > Save (FileMenu.build)
\* and Edit > Copy (EditMenu.build), each with the titles of its enclosing
\* menus and its text.
KeyMapActions ==
    { [titles |-> <<sFile>>, text |-> sSave],
      [titles |-> <<sEdit>>, text |-> sCopy] }

\* iep.config.shortcuts as it is loaded: every value is "s1,s2" or "s1",
\* in any letter case.
InitConfigs ==
    { EmptyDict,
      ActionMenuPath(<<sFile>>, sSave) :> (sCtrl \o <<"K", ",">>),
      ActionMenuPath(<<sEdit>>, sCopy) :> (Lower(sCtrl) \o <<"k", ",">> \o sF5) }

\* getShortcut(fullName) for a str fullName: the tuple of the shortcuts
\* stored for it (as many as the stored value has commas, plus one).
GetShortcut(config, name) ==
    IF name \in DOMAIN config
    THEN IF Count(config[name], ",") > 0
         THEN Split(config[name], ",")
         ELSE <<config[name], <<>>>>
    ELSE << <<>>, <<>> >>

\* KeyMapper.setShortcut(action): the shortcuts of the action afterwards.
SetShortcut(config, a, current) ==
    LET menuPath == ActionMenuPath(a.titles, a.text)
    IN  IF menuPath \in DOMAIN config
        THEN Split(config[menuPath], ",")
        ELSE current

\* The key events of one key press, as (event.key(), event.nativeVirtualKey()):
\* on X11 the K key, the comma key, F5 and the Shift key alone; on Mac OS
\* the comma key, and the comma key with Shift held ("<").
KeyEvents(pf) ==
    IF pf = "darwin"
    THEN { [key |-> 44, native |-> 43], [key |-> 60, native |-> 43] }
    ELSE { [key |-> 75, native |-> 107], [key |-> 44, native |-> 44],
           [key |-> 16777268, native |-> 65474],
           [key |-> 16777248, native |-> 65505] }

\* QtGui.qApp.keyboardModifiers() during a key press.
ModifierSets == { {}, {"Ctrl"}, {"Shift"} }

\* keymap: the keys with a name of their own (here Key_F5 and Key_Space).
keymap == (16777268 :> sF5) @@ (32 :> <<"S", "p", "a", "c", "e">>)

\* KeyMapLineEdit.keyPressEvent, the text of the key before the modifiers.
KeyText(pf, ev, native) ==
    LET text == IF ev.native < 128 /\ pf # "darwin"
                THEN Upper(<<Chr(ev.native)>>)
                ELSE IF ev.key < 128 THEN Upper(<<Chr(ev.key)>>)
                ELSE <<>>
    IN  IF ev.key \in DOMAIN keymap THEN keymap[ev.key]
        ELSE IF ev.native \in DOMAIN native THEN native[ev.native]
        ELSE text

\* KeyMapLineEdit.keyPressEvent, the text with the modifiers before it.
WithModifiers(text, mods) ==
    LET t1 == IF "Alt" \in mods THEN sAlt \o text ELSE text
        t2 == IF "Shift" \in mods THEN sShift \o t1 ELSE t1
        t3 == IF "Ctrl" \in mods THEN sCtrl \o t2 ELSE t2
    IN  IF "Meta" \in mods THEN sMeta \o t3 ELSE t3

\* What the label of the edit dialog shows: nothing, the intro text, or the
\* intro text and the warning that names a key of the configuration and
\* 'primary' or 'secondary'.
LabelEmpty == [text |-> "empty"]
LabelIntro == [text |-> "intro"]
LabelWarning(key, primSec) == [text |-> "warning", key |-> key, primSec |-> primSec]

\* KeyMapEditDialog.onEdit: the labels it may set for the shortcut of the
\* line. The loop stops at the first key of the dict that corresponds; a
\* dict has no order of its own, so each such key may be the first.
OnEditLabels(config, shortcut) ==
    LET primSec(key) ==
            IF Lower(GetShortcut(config, key)[1]) = Lower(shortcut) THEN "primary"
            ELSE IF Lower(GetShortcut(config, key)[2]) = Lower(shortcut) THEN "secondary"
            ELSE ""
        hits == {key \in DOMAIN config : primSec(key) # ""}
    IN  IF shortcut = <<>> \/ hits = {} THEN {LabelIntro}
        ELSE {LabelWarning(key, primSec(key)) : key \in hits}

\* KeyMapEditDialog.onAccept, its first loop: the shortcut removed wherever
\* it is present. Every key is rewritten from its own entry alone.
RemoveElsewhere(config, shortcut) ==
    LET hit(key, i) == Lower(GetShortcut(config, key)[i]) = Lower(shortcut)
        needUpdate(key) == hit(key, 1) \/ hit(key, 2)
        tmp(key) ==
            LET pair == GetShortcut(config, key)
                list == [i \in 1..Len(pair) |->
                            IF i \in {1, 2} /\ hit(key, i) THEN <<>> ELSE pair[i]]
            IN  ReplaceChar(Join(list, <<",">>), " ", <<>>)
        kept == {key \in DOMAIN config : ~(needUpdate(key) /\ Len(tmp(key)) = 1)}
    IN  [key \in kept |-> IF needUpdate(key) THEN tmp(key) ELSE config[key]]

\* KeyMapEditDialog.onAccept, its second part: the shortcut inserted.
InsertShortcut(config, name, primary, shortcut) ==
    IF name = <<>> THEN config
    ELSE LET current == IF name \in DOMAIN config
                        THEN GetShortcut(config, name)
                        ELSE << <<>>, <<>> >>
             slot == IF primary THEN 1 ELSE 2
             updated == [current EXCEPT ![slot] = shortcut]
         IN  DictSet(config, name, Join(updated, <<",">>))

\* No KeyMapEditDialog is there (KeyMapEditDialog.__init__ sets these when
\* the next one is made).
EditDialogGone ==
    /\ fullname = <<>>
    /\ isprimary = TRUE
    /\ line = <<>>
    /\ nativeKeys = EmptyDict
    /\ label = LabelEmpty

\* The edit dialog closes (self.close()): the dialog object is dropped.
EditDialogClosed ==
    /\ fullname' = <<>>
    /\ isprimary' = TRUE
    /\ line' = <<>>
    /\ nativeKeys' = EmptyDict
    /\ label' = LabelEmpty

KeyInit ==
    /\ shortcuts \in InitConfigs
    /\ active = [a \in KeyMapActions |-> SetShortcut(shortcuts, a, <<>>)]
    /\ platform \in {"darwin", "linux"}
    /\ dlg = "closed"
    /\ EditDialogGone
    /\ applies = 0
    /\ keyOp = [op |-> "init"]

\* SettingsMenu, 'Edit key mappings...': KeymappingDialog().exec_()
OpenKeymappingDialog ==
    /\ dlg = "closed"
    /\ dlg' = "keymap"
    /\ keyOp' = [op |-> "open"]
    /\ UNCHANGED notKeyVars
    /\ UNCHANGED <<shortcuts, active, platform, fullname, isprimary, line,
                   nativeKeys, label, applies>>

\* KeymappingDialog.popupItem(item, shortCutId), from a click on column 1 or
\* 2 or a double click on column 0 of the action's row: a new
\* KeyMapEditDialog, setFullName, exec_.
PopupItem(a, shortCutId) ==
    /\ dlg = "keymap"
    /\ applies < MaxApply
    /\ a.text # <<>>
    /\ LET name == GetFullName(a.titles, a.text)
           current == IF name \in DOMAIN shortcuts
                      THEN Split(IF Count(shortcuts[name], ",") = 0
                                 THEN shortcuts[name] \o <<",">>
                                 ELSE shortcuts[name], ",")
                      ELSE << <<>>, <<>> >>
       IN  /\ fullname' = name
           /\ isprimary' = (shortCutId = 1)
           /\ line' = IF shortCutId = 1 THEN current[1] ELSE current[2]
    /\ nativeKeys' = EmptyDict
    /\ label' = LabelIntro
    /\ dlg' = "edit"
    /\ keyOp' = [op |-> "popupItem"]
    /\ UNCHANGED notKeyVars
    /\ UNCHANGED <<shortcuts, active, platform, applies>>

\* KeyMapLineEdit.keyPressEvent, and KeyMapEditDialog.onEdit that its
\* textUpdate signal calls.
KeyPressEvent(ev, mods) ==
    /\ dlg = "edit"
    /\ LET text0 == KeyText(platform, ev, nativeKeys)
           text == WithModifiers(text0, mods)
       IN  /\ line' = IF text0 # <<>> THEN text ELSE line
           /\ nativeKeys' = IF text0 # <<>> /\ "Shift" \notin mods /\ ev.native # 0
                            THEN DictSet(nativeKeys, ev.native, text0)
                            ELSE nativeKeys
    /\ label' \in OnEditLabels(shortcuts, line')
    /\ keyOp' = [op |-> "onEdit"]
    /\ UNCHANGED notKeyVars
    /\ UNCHANGED <<shortcuts, active, platform, dlg, fullname, isprimary, applies>>

\* KeyMapEditDialog.onClear
OnClear ==
    /\ dlg = "edit"
    /\ line' = <<>>
    /\ keyOp' = [op |-> "onClear"]
    /\ UNCHANGED notKeyVars
    /\ UNCHANGED <<shortcuts, active, platform, dlg, fullname, isprimary,
                   nativeKeys, label, applies>>

\* KeyMapEditDialog.onAccept (the Apply button)
OnAccept ==
    /\ dlg = "edit"
    /\ applies < MaxApply
    /\ shortcuts' = InsertShortcut(RemoveElsewhere(shortcuts, line),
                                   fullname, isprimary, line)
    /\ applies' = applies + 1
    /\ dlg' = "keymap"
    /\ EditDialogClosed
    /\ keyOp' = [op |-> "onAccept", name |-> fullname,
                 slot |-> IF isprimary THEN 1 ELSE 2, shortcut |-> line,
                 before |-> GetShortcut(shortcuts, fullname)]
    /\ UNCHANGED notKeyVars
    /\ UNCHANGED <<active, platform>>

\* The Cancel button of the edit dialog: self.close
OnCancel ==
    /\ dlg = "edit"
    /\ dlg' = "keymap"
    /\ EditDialogClosed
    /\ keyOp' = [op |-> "cancel"]
    /\ UNCHANGED notKeyVars
    /\ UNCHANGED <<shortcuts, active, platform, applies>>

\* KeymappingDialog.closeEvent: keyMappingChanged is emitted, and the slot
\* of every action (Menu._connectActionShortcut) calls KeyMapper.setShortcut.
CloseEvent ==
    /\ dlg = "keymap"
    /\ active' = [a \in KeyMapActions |-> SetShortcut(shortcuts, a, active[a])]
    /\ dlg' = "closed"
    /\ keyOp' = [op |-> "closeEvent"]
    /\ UNCHANGED notKeyVars
    /\ UNCHANGED <<shortcuts, platform, fullname, isprimary, line, nativeKeys,
                   label, applies>>

KeyNext ==
    \/ OpenKeymappingDialog
    \/ \E a \in KeyMapActions, shortCutId \in {1, 2} : PopupItem(a, shortCutId)
    \/ \E ev \in KeyEvents(platform), mods \in ModifierSets : KeyPressEvent(ev, mods)
    \/ OnClear
    \/ OnAccept
    \/ OnCancel
    \/ CloseEvent

\* The items of the menu are not looked at while another part is.
ItemIdle ==
    /\ actions = <<>>
    /\ groups = EmptyDict
    /\ calls = <<>>
    /\ itemOp = [op |-> "idle"]

\* No KeyMapModel has been made.
TreeIdle ==
    /\ treeRoot = [class |-> "None"]
    /\ treeFrom = [valid |-> FALSE, row |-> -1, column |-> -1, item |-> [class |-> "None"]]
    /\ treeIndex = [valid |-> FALSE, row |-> -1, column |-> -1, item |-> [class |-> "None"]]
    /\ treeParent = [valid |-> FALSE, row |-> -1, column |-> -1, item |-> [class |-> "None"]]
    /\ treeOp = "idle"

\* No shell and no editor: the Run menu is not used.
CellIdle ==
    /\ hasShell = FALSE
    /\ hasEditor = FALSE
    /\ document = << <<>> >>
    /\ textCursor = 0
    /\ textAnchor = 0
    /\ executed = <<>>
    /\ warning = <<>>
    /\ cellOp = [op |-> "idle"]
    /\ editorFilename = ""
    /\ mainEditor = [valid |-> FALSE, filename |-> ""]
    /\ found = [shell |-> "None", editor |-> "None"]
    /\ scriptLog = <<>>
    /\ scriptWarning = <<>>

\* The menus are not looked at while the key mapping is.
PathIdle ==
    /\ items = {}
    /\ shellConfigs = <<>>
    /\ shellCreateActions = <<>>
    /\ pathOp = "idle"

\* The key mapping dialogs at work on the configuration.
InitKeys == KeyInit /\ PathIdle /\ ItemIdle /\ CellIdle /\ TreeIdle

SpecKeys == InitKeys /\ [][KeyNext]_vars

\* The (key, slot) pairs of the configuration: slot 1 is the primary and
\* slot 2 the secondary shortcut that getShortcut returns for the key.
Slots(config) == {<<key, i>> : key \in DOMAIN config, i \in {1, 2}}

SlotValue(config, p) == GetShortcut(config, p[1])[p[2]]

\* C1: after Apply (onAccept) of a non-empty shortcut s for action F and
\* slot k, the configuration holds s in slot k of F, and no other
\* (action, slot) holds a shortcut equal to s ignoring case.
C1_ApplyStoresUnique ==
    (keyOp.op = "onAccept" /\ keyOp.shortcut # <<>>) =>
        /\ keyOp.name \in DOMAIN shortcuts
        /\ SlotValue(shortcuts, <<keyOp.name, keyOp.slot>>) = keyOp.shortcut
        /\ \A p \in Slots(shortcuts) \ {<<keyOp.name, keyOp.slot>>} :
               Lower(SlotValue(shortcuts, p)) # Lower(keyOp.shortcut)

\* C3: when keyMappingChanged has been emitted (closeEvent), the active
\* shortcuts of every menu action are the ones stored for its menuPath, and
\* an action whose menuPath has no entry has no active shortcut.
C3_ActiveAreStored ==
    keyOp.op = "closeEvent" =>
        \A a \in KeyMapActions :
            LET menuPath == ActionMenuPath(a.titles, a.text)
            IN  IF menuPath \in DOMAIN shortcuts
                THEN active[a] = Split(shortcuts[menuPath], ",")
                ELSE \A i \in 1..Len(active[a]) : active[a][i] = <<>>

\* C4: after Apply stores the non-empty shortcut s in slot k of F,
\* getShortcut(F) is a tuple of exactly two strings, element k is s and the
\* other element is F's previous other shortcut. (Read with C1: a previous
\* other shortcut equal to s ignoring case is the collision Apply removes, so
\* that case is left out here.)
C4_ApplyRoundTrip ==
    (/\ keyOp.op = "onAccept"
     /\ keyOp.shortcut # <<>>
     /\ Lower(keyOp.before[3 - keyOp.slot]) # Lower(keyOp.shortcut)) =>
        LET got == GetShortcut(shortcuts, keyOp.name)
        IN  /\ Len(got) = 2
            /\ got[keyOp.slot] = keyOp.shortcut
            /\ got[3 - keyOp.slot] = keyOp.before[3 - keyOp.slot]

\* C5: onEdit shows the warning, naming the action and 'primary' or
\* 'secondary', exactly when the non-empty shortcut of the line equals,
\* ignoring case, a shortcut the configuration holds in an (action, slot)
\* other than the one being edited; otherwise it shows only the intro.
C5_WarningForOtherSlots ==
    keyOp.op = "onEdit" =>
        LET edited == <<fullname, IF isprimary THEN 1 ELSE 2>>
            held == {p \in Slots(shortcuts) \ {edited} :
                         Lower(SlotValue(shortcuts, p)) = Lower(line)}
        IN  IF line # <<>> /\ held # {}
            THEN /\ label.text = "warning"
                 /\ <<label.key, IF label.primSec = "primary" THEN 1 ELSE 2>> \in held
            ELSE label = LabelIntro

\* ------------------------------------------------- the menus (buildMenus)

\* The largest number of shell configurations.
MaxShells == 3

sView == <<"V", "i", "e", "w">>
sSettings == <<"S", "e", "t", "t", "i", "n", "g", "s">>
sRun == <<"R", "u", "n">>

\* Actions of the menus that buildMenus builds, each with the titles of its
\* enclosing menus and its text: made by addItem (FileMenu, SettingsMenu,
\* RunMenu), addGroupItem (IndentationMenu, EdgeColumnMenu, QtThemeMenu) and
\* addCheckItem (ViewMenu.addEditorItem).
MenuItems ==
    { [titles |-> <<sFile>>, text |-> sSave],
      [titles |-> <<sFile, sIndentation>>, text |-> <<"U", "s", "e", " ", "t", "a", "b", "s">>],
      [titles |-> <<sFile, sIndentation>>, text |-> <<"2", " ", "s", "p", "a", "c", "e", "s">>],
      [titles |-> <<sView>>, text |-> <<"S", "h", "o", "w", " ", "w", "h", "i", "t", "e", "s", "p", "a", "c", "e">>],
      [titles |-> <<sView, <<"E", "d", "g", "e", " ", "c", "o", "l", "u", "m", "n">>>>, text |-> <<"6", "0">>],
      [titles |-> <<sView, <<"Q", "t", " ", "t", "h", "e", "m", "e">>>>, text |-> <<"C", "l", "e", "a", "n", "l", "o", "o", "k", "s", "+", " ", "(", "d", "e", "f", "a", "u", "l", "t", ")">>],
      [titles |-> <<sSettings>>, text |-> <<"E", "d", "i", "t", " ", "k", "e", "y", " ", "m", "a", "p", "p", "i", "n", "g", "s", ".", ".", ".">>],
      [titles |-> <<sRun>>, text |-> <<"R", "u", "n", " ", "f", "i", "l", "e", " ", "a", "s", " ", "s", "c", "r", "i", "p", "t">>] }

\* Names of shell configurations (config.name), with and without brackets.
ShellNames ==
    { <<"a">>, <<"(", "a", ")">>, <<"a", ")">>, <<"(", "a">>, <<")", "(">>, <<"a", " ", "(", "b", ")", " ", "c">> }

\* '%s' % n for a number n >= 0.
RECURSIVE Str(_)
Str(n) == IF n < 10 THEN <<Chr(48 + n)>> ELSE Str(n \div 10) \o <<Chr(48 + (n % 10))>>

\* 'Create shell %s: (%s)' % (i+1, config.name), i+1 given as number.
CreateShellText(number, name) ==
    <<"C", "r", "e", "a", "t", "e", " ", "s", "h", "e", "l", "l", " ">> \o Str(number) \o <<":", " ", "(">> \o name \o <<")">>

\* Menu.addItem, addGroupItem and addCheckItem, the action each makes: its
\* text, and the menuPath that _connectActionShortcut gives it.
NewAction(titles, text) ==
    [titles |-> titles, text |-> text, menuPath |-> ActionMenuPath(titles, text)]

\* ShellMenu.updateShells: the create actions made for the configurations.
UpdateShells(configs) ==
    [i \in 1..Len(configs) |->
        NewAction(<<sShell>>, CreateShellText(i, configs[i]))]

PathInit ==
    /\ items = {}
    /\ shellConfigs \in {<<>>, <<<<"a">>>>, <<<<"(", "a", ")">>>>}
    /\ shellCreateActions = <<>>
    /\ pathOp = "init"

\* buildMenus(menuBar): every menu is built, the Shell menu with its create
\* actions (ShellMenu.build calls updateShells).
BuildMenus ==
    /\ pathOp = "init"
    /\ items' = {NewAction(it.titles, it.text) : it \in MenuItems}
    /\ shellCreateActions' = UpdateShells(shellConfigs)
    /\ pathOp' = "buildMenus"
    /\ UNCHANGED notPathVars
    /\ UNCHANGED shellConfigs

\* ShellMenu.editConfig: the dialog adds a configuration, and updateShells.
EditConfigAdd(name) ==
    /\ pathOp # "init"
    /\ Len(shellConfigs) < MaxShells
    /\ shellConfigs' = Append(shellConfigs, name)
    /\ shellCreateActions' = UpdateShells(shellConfigs')
    /\ pathOp' = "editConfig"
    /\ UNCHANGED notPathVars
    /\ UNCHANGED items

\* ShellMenu.editConfig: the dialog removes a configuration, and updateShells.
EditConfigRemove(i) ==
    /\ pathOp # "init"
    /\ i \in 1..Len(shellConfigs)
    /\ shellConfigs' = SubSeq(shellConfigs, 1, i - 1)
                           \o SubSeq(shellConfigs, i + 1, Len(shellConfigs))
    /\ shellCreateActions' = UpdateShells(shellConfigs')
    /\ pathOp' = "editConfig"
    /\ UNCHANGED notPathVars
    /\ UNCHANGED items

\* ShellMenu.editConfig: the dialog renames a configuration, and updateShells.
EditConfigRename(i, name) ==
    /\ pathOp # "init"
    /\ i \in 1..Len(shellConfigs)
    /\ shellConfigs' = [shellConfigs EXCEPT ![i] = name]
    /\ shellCreateActions' = UpdateShells(shellConfigs')
    /\ pathOp' = "editConfig"
    /\ UNCHANGED notPathVars
    /\ UNCHANGED items

PathNext ==
    \/ BuildMenus
    \/ \E name \in ShellNames : EditConfigAdd(name)
    \/ \E i \in 1..MaxShells : EditConfigRemove(i)
    \/ \E i \in 1..MaxShells, name \in ShellNames : EditConfigRename(i, name)

\* The key mapping is not looked at while the menus are.
KeyIdle ==
    /\ shortcuts = EmptyDict
    /\ active = [a \in KeyMapActions |-> <<>>]
    /\ platform = "linux"
    /\ dlg = "closed"
    /\ EditDialogGone
    /\ applies = 0
    /\ keyOp = [op |-> "idle"]

\* The menus are built, and the shell configurations edited.
InitPath == PathInit /\ KeyIdle /\ ItemIdle /\ CellIdle /\ TreeIdle

SpecPath == InitPath /\ [][PathNext]_vars

\* C2: for every action of the menus built, the key under which the edit
\* dialog stores its shortcut, getFullName(action), is the key under which
\* KeyMapper.setShortcut looks it up, action.menuPath.
C2_FullNameIsMenuPath ==
    \A it \in items : GetFullName(it.titles, it.text) = it.menuPath

\* C6: the path name of the item 'Create shell i: (name)' depends only on
\* the index i: it is shell__create_shell_<i>_ for every configuration name,
\* names with brackets included, after the menus are built and after every
\* updateShells.
C6_CreateShellPathStable ==
    \A i \in 1..Len(shellCreateActions) :
        shellCreateActions[i].menuPath = <<"s", "h", "e", "l", "l", "_", "_", "c", "r", "e", "a", "t", "e", "_", "s", "h", "e", "l", "l", "_">> \o Str(i) \o <<"_">>

\* A create action is there for a configuration whose name has a bracket,
\* after an updateShells that followed an edit of the configurations.
C6_Witness ==
    /\ pathOp = "editConfig"
    /\ Len(shellCreateActions) = Len(shellConfigs)
    /\ \E i \in 1..Len(shellConfigs) :
           /\ \E j \in 1..Len(shellConfigs[i]) : shellConfigs[i][j] \in {"(", ")"}
           /\ shellCreateActions[i].text = CreateShellText(i, shellConfigs[i])

\* ------------------------------------------- the items of a menu (Menu)

\* The largest number of items added to the menu.
MaxItems == 3

\* A Python value is written as a str: None is "None", the number 0 is "0".
\* The callbacks given to addItem and to addGroupItem (None: no callback).
ItemCallbacks == {"None", "editItemCallback"}
GroupCallbacks == {"None", "changed"}

\* The values given to addItem (EditMenu.build: none, or a value; 0 is the
\* value that is not None and not true).
ItemValues == {"None", "0", "undo"}

\* The groups and the values of their items (EdgeColumnMenu.build).
GroupNames == {"edge"}
GroupValues == {"0", "60", "70"}

\* bool(x) of a Python value.
Truthy(x) == x \notin {"None", "0", "False", ""}

\* One call of a callback with its arguments.
Call(callback, args) == [callback |-> callback, args |-> args]

\* Menu.addItem with the test 'if value:' in place of 'if value is not None:'.
AddItemSlotsTruthy(callback, value) ==
    IF Truthy(callback)
    THEN IF Truthy(value)
         THEN <<[fn |-> "callback(v)", callback |-> callback, v |-> value]>>
         ELSE <<[fn |-> "callback()", callback |-> callback, v |-> "None"]>>
    ELSE <<>>

\* Menu.addItem: the slots it connects to a.triggered, lambda b, v = value:
\* callback(v) or lambda b: callback().
AddItemSlots(callback, value) ==
    IF Truthy(callback)
    THEN IF value # "None"
         THEN <<[fn |-> "callback(v)", callback |-> callback, v |-> value]>>
         ELSE <<[fn |-> "callback()", callback |-> callback, v |-> "None"]>>
    ELSE <<>>

\* Menu.addGroupItem: the slot it connects to a.toggled, lambda b, v = value:
\* doCallback(b, v).
AddGroupItemSlots(callback, value) ==
    IF Truthy(callback)
    THEN <<[fn |-> "doCallback(b, v)", callback |-> callback, v |-> value]>>
    ELSE <<>>

\* doCallback without its test 'if b:'.
DoCallbackAlways(callback, b, v) == <<Call(callback, <<v>>)>>

\* doCallback(b, v) of Menu.addGroupItem: the calls it makes.
DoCallback(callback, b, v) ==
    IF b THEN <<Call(callback, <<v>>)>> ELSE <<>>

\* A slot called with the signal's argument b: the calls it makes.
RunSlot(slot, b) ==
    IF slot.fn = "callback(v)" THEN <<Call(slot.callback, <<slot.v>>)>>
    ELSE IF slot.fn = "callback()" THEN <<Call(slot.callback, <<>>)>>
    ELSE DoCallback(slot.callback, b, slot.v)

\* A signal emitted with argument b: its slots are called in the order they
\* were connected.
RECURSIVE Emit(_, _)
Emit(slots, b) ==
    IF slots = <<>> THEN <<>> ELSE RunSlot(Head(slots), b) \o Emit(Tail(slots), b)

\* QAction.setChecked(b) of action i: nothing for an action that is not
\* checkable or is in that state already. Otherwise its exclusive
\* QActionGroup first unchecks its current action, which emits toggled(False),
\* and then the action emits toggled(b). The result is the actions, the
\* groups and the toggled signals in the order they are emitted.
SetChecked(as, gs, i, b) ==
    IF ~as[i].checkable \/ as[i].checked = b
    THEN [actions |-> as, groups |-> gs, toggles |-> <<>>]
    ELSE IF as[i].group = "None"
    THEN [actions |-> [as EXCEPT ![i].checked = b], groups |-> gs,
          toggles |-> <<[action |-> i, b |-> b]>>]
    ELSE LET g == as[i].group
             old == gs[g].current
         IN  IF b
             THEN IF old # 0 /\ old # i /\ as[old].checked
                  THEN [actions |-> [as EXCEPT ![old].checked = FALSE, ![i].checked = TRUE],
                        groups |-> [gs EXCEPT ![g].current = i],
                        toggles |-> <<[action |-> old, b |-> FALSE],
                                      [action |-> i, b |-> TRUE]>>]
                  ELSE [actions |-> [as EXCEPT ![i].checked = TRUE],
                        groups |-> [gs EXCEPT ![g].current = i],
                        toggles |-> <<[action |-> i, b |-> TRUE]>>]
             ELSE [actions |-> [as EXCEPT ![i].checked = FALSE],
                   groups |-> [gs EXCEPT ![g].current = IF old = i THEN 0 ELSE old],
                   toggles |-> <<[action |-> i, b |-> FALSE]>>]

\* The calls that the toggled signals make.
RECURSIVE EmitToggles(_, _)
EmitToggles(as, toggles) ==
    IF toggles = <<>> THEN <<>>
    ELSE Emit(as[Head(toggles).action].toggled, Head(toggles).b)
             \o EmitToggles(as, Tail(toggles))

\* Menu.setCheckedOption with the first action of the group taken for a value
\* that no item has.
CheckedOptionTargetAny(group, value) ==
    IF value \in DOMAIN group.byValue THEN group.byValue[value]
    ELSE CHOOSE i \in group.members : \A j \in group.members : i <= j

\* Menu.setCheckedOption: the action it checks, actions[value], or 0 when
\* value is not in actions.
CheckedOptionTarget(group, value) ==
    IF value \in DOMAIN group.byValue THEN group.byValue[value] ELSE 0

\* The check marks of the actions.
CheckMarks(as) == [i \in 1..Len(as) |-> as[i].checked]

ItemInit ==
    /\ actions = <<>>
    /\ groups = EmptyDict
    /\ calls = <<>>
    /\ itemOp = [op |-> "init"]

\* Menu.addItem(properties, callback, value)
AddItem(callback, value) ==
    /\ Len(actions) < MaxItems
    /\ actions' = Append(actions,
           [made |-> "addItem", callback |-> callback, value |-> value,
            checkable |-> FALSE, checked |-> FALSE, group |-> "None",
            triggered |-> AddItemSlots(callback, value), toggled |-> <<>>])
    /\ calls' = <<>>
    /\ itemOp' = [op |-> "addItem"]
    /\ UNCHANGED groups
    /\ UNCHANGED notItemVars

\* Menu.addGroupItem(properties, group, value, callback, selected). The
\* callers give the items of a group different values and select at most one.
AddGroupItem(group, value, callback, selected) ==
    /\ Len(actions) < MaxItems
    /\ IF group \in DOMAIN groups
       THEN /\ value \notin DOMAIN groups[group].byValue
            /\ selected => groups[group].current = 0
       ELSE TRUE
    /\ LET i == Len(actions) + 1
           g == IF group \in DOMAIN groups THEN groups[group]
                ELSE [members |-> {}, byValue |-> EmptyDict, current |-> 0]
       IN  /\ actions' = Append(actions,
                  [made |-> "addGroupItem", callback |-> callback, value |-> value,
                   checkable |-> TRUE, checked |-> selected, group |-> group,
                   triggered |-> <<>>, toggled |-> AddGroupItemSlots(callback, value)])
           /\ groups' = DictSet(groups, group,
                  [members |-> g.members \cup {i},
                   byValue |-> DictSet(g.byValue, value, i),
                   current |-> IF selected THEN i ELSE g.current])
    /\ calls' = <<>>
    /\ itemOp' = [op |-> "addGroupItem"]
    /\ UNCHANGED notItemVars

\* The user selects item i of the menu: QAction.activate(Trigger). A
\* checkable action is toggled, except the checked action of its exclusive
\* group, and triggered is emitted.
Trigger(i) ==
    /\ i \in 1..Len(actions)
    /\ LET a == actions[i]
           stays == /\ a.checked /\ a.group # "None"
                    /\ groups[a.group].current = i
           res == IF a.checkable /\ ~stays
                  THEN SetChecked(actions, groups, i, ~a.checked)
                  ELSE [actions |-> actions, groups |-> groups, toggles |-> <<>>]
       IN  /\ actions' = res.actions
           /\ groups' = res.groups
           /\ calls' = EmitToggles(actions, res.toggles)
                           \o Emit(a.triggered, res.actions[i].checked)
    /\ itemOp' = [op |-> "trigger", action |-> i, before |-> CheckMarks(actions)]
    /\ UNCHANGED notItemVars

\* Menu.setCheckedOption(group, value), for a group of the menu.
SetCheckedOption(group, value) ==
    /\ group \in DOMAIN groups
    /\ LET target == CheckedOptionTarget(groups[group], value)
           res == IF target # 0
                  THEN SetChecked(actions, groups, target, TRUE)
                  ELSE [actions |-> actions, groups |-> groups, toggles |-> <<>>]
       IN  /\ actions' = res.actions
           /\ groups' = res.groups
           /\ calls' = EmitToggles(actions, res.toggles)
    /\ itemOp' = [op |-> "setCheckedOption", group |-> group, value |-> value,
                  before |-> CheckMarks(actions)]
    /\ UNCHANGED notItemVars

ItemNext ==
    \/ \E callback \in ItemCallbacks, value \in ItemValues : AddItem(callback, value)
    \/ \E group \in GroupNames, value \in GroupValues, callback \in GroupCallbacks,
          selected \in BOOLEAN : AddGroupItem(group, value, callback, selected)
    \/ \E i \in 1..MaxItems : Trigger(i)
    \/ \E group \in GroupNames, value \in GroupValues : SetCheckedOption(group, value)

InitItems == ItemInit /\ KeyIdle /\ PathIdle /\ CellIdle /\ TreeIdle

\* A menu is filled with items, which are selected and set.
SpecItems == InitItems /\ [][ItemNext]_vars

\* C7: triggering an action that addItem made calls its callback exactly
\* once, with no arguments when the value is None and with the value as the
\* single argument otherwise; an item added without a callback calls nothing.
C7_TriggerCallsCallback ==
    (itemOp.op = "trigger" /\ actions[itemOp.action].made = "addItem") =>
        LET a == actions[itemOp.action]
        IN  calls = IF a.callback = "None" THEN <<>>
                    ELSE IF a.value = "None" THEN <<Call(a.callback, <<>>)>>
                    ELSE <<Call(a.callback, <<a.value>>)>>

\* An item added with a callback and the value 0 was triggered, and the
\* callback was called with 0.
C7_Witness ==
    /\ itemOp.op = "trigger"
    /\ actions[itemOp.action].made = "addItem"
    /\ actions[itemOp.action].callback = "editItemCallback"
    /\ actions[itemOp.action].value = "0"
    /\ calls = <<Call("editItemCallback", <<"0">>)>>

\* The calls of the callback of the group items among the calls made.
GroupCalls(cs) == SelectSeq(cs, LAMBDA c : c.callback = "changed")

\* C8: in a step that selects an item or calls setCheckedOption (the list of
\* actions stays as it is), a change of the group's selected item calls the
\* callback of the newly selected item exactly once, with that item's value,
\* and nothing else of the group; no change of it calls nothing of the group.
C8_SelectionChangeCallsOnce ==
    [][Len(actions') = Len(actions) =>
        \A g \in DOMAIN groups :
            LET old == groups[g].current
                new == groups'[g].current
            IN  IF new # old /\ new # 0 /\ actions[new].callback # "None"
                THEN GroupCalls(calls') = <<Call(actions[new].callback, <<actions[new].value>>)>>
                ELSE GroupCalls(calls') = <<>>]_vars

\* The selection of the group went from one item with a callback to another,
\* and the callback was called once, with the value of the new one.
C8_Witness ==
    /\ itemOp.op \in {"trigger", "setCheckedOption"}
    /\ \E i, j \in 1..Len(actions) :
           /\ i # j
           /\ actions[i].group = "edge" /\ actions[j].group = "edge"
           /\ actions[i].callback = "changed" /\ actions[j].callback = "changed"
           /\ itemOp.before[i] /\ ~actions[i].checked
           /\ ~itemOp.before[j] /\ actions[j].checked
           /\ groups["edge"].current = j
           /\ calls = <<Call("changed", <<actions[j].value>>)>>

\* What setCheckedOption(group, value) must leave for a value that an item
\* of the group has: that item is the checked item of the group.
CheckedItemIs(group, value) ==
    LET target == groups[group].byValue[value]
    IN  /\ groups[group].current = target
        /\ \A i \in groups[group].members : actions[i].checked <=> i = target

\* C9 as it is stated: setCheckedOption(group, value) for a value that an
\* item of the group has makes that item the checked item and calls the
\* callback of that item with value; for a value that no item of the group
\* has it changes no check mark and calls nothing.
C9_SetCheckedOptionCalls ==
    itemOp.op = "setCheckedOption" =>
        IF itemOp.value \in DOMAIN groups[itemOp.group].byValue
        THEN LET a == actions[groups[itemOp.group].byValue[itemOp.value]]
             IN  /\ CheckedItemIs(itemOp.group, itemOp.value)
                 /\ calls = IF a.callback = "None" THEN <<>>
                            ELSE <<Call(a.callback, <<itemOp.value>>)>>
        ELSE CheckMarks(actions) = itemOp.before /\ calls = <<>>

\* C9 as amended: the callback of the item is called, once and with value,
\* when the item was not checked before; when it was checked already,
\* nothing is called. The rest is as stated.
C9_SetCheckedOptionCallsOnChange ==
    itemOp.op = "setCheckedOption" =>
        IF itemOp.value \in DOMAIN groups[itemOp.group].byValue
        THEN LET target == groups[itemOp.group].byValue[itemOp.value]
                 a == actions[target]
             IN  /\ CheckedItemIs(itemOp.group, itemOp.value)
                 /\ calls = IF a.callback = "None" \/ itemOp.before[target] THEN <<>>
                            ELSE <<Call(a.callback, <<itemOp.value>>)>>
        ELSE CheckMarks(actions) = itemOp.before /\ calls = <<>>

\* setCheckedOption was called with the value of an item that was not
\* checked while another item of the group was, and the callback was called.
C9_Witness ==
    /\ itemOp.op = "setCheckedOption"
    /\ itemOp.value \in DOMAIN groups[itemOp.group].byValue
    /\ LET target == groups[itemOp.group].byValue[itemOp.value]
       IN  /\ ~itemOp.before[target]
           /\ \E i \in groups[itemOp.group].members : itemOp.before[i]
           /\ actions[target].checked
           /\ calls = <<Call("changed", <<itemOp.value>>)>>

----
\* ------------------------------------------------------------ the Run menu

\* The greatest number of lines of a document.
MaxLines == 3

\* The lines of the documents: empty, code, a cell separator, an indented
\* one, one with text behind it, a comment, and code with ## behind it.
CellLines ==
    { <<>>, <<"x">>, <<"#", "#">>, <<" ", "#", "#">>, <<"#", "#", " ", "x">>,
      <<"#">>, <<"x", "#", "#">> }

\* The documents: a QTextDocument has at least one block.
Documents == UNION {[1..n -> CellLines] : n \in 1..MaxLines}

\* The paragraph separator between the blocks of a QTextDocument, U+2029.
ParagraphSeparator == "U+2029"

\* editor.id()
sFname == "fname"

\* s.lstrip()
RECURSIVE LStrip(_)
LStrip(s) ==
    IF s # <<>> /\ Head(s) \in {" ", "\t"} THEN LStrip(Tail(s)) ELSE s

\* s.startswith(prefix)
StartsWith(s, prefix) ==
    Len(s) >= Len(prefix) /\ SubSeq(s, 1, Len(prefix)) = prefix

\* block.text().lstrip().startswith('##')
IsCellSeparator(text) == StartsWith(LStrip(text), <<"#", "#">>)

\* The characters of the document, its blocks joined by the separator.
DocumentText(doc) == Join(doc, <<ParagraphSeparator>>)

\* QTextBlock.position() of the block with blockNumber() b (from 0).
RECURSIVE BlockPosition(_, _)
BlockPosition(doc, b) ==
    IF b = 0 THEN 0 ELSE BlockPosition(doc, b - 1) + Len(doc[b]) + 1

\* QTextCursor.blockNumber(): the block that the position is in.
BlockNumber(doc, position) ==
    CHOOSE b \in 0..(Len(doc) - 1) :
        /\ BlockPosition(doc, b) <= position
        /\ position <= BlockPosition(doc, b) + Len(doc[b + 1])

\* block.previous().isValid() and block.next().isValid() of block b.
PreviousIsValid(doc, b) == b > 0
NextIsValid(doc, b) == b + 1 < Len(doc)

\* QTextCursor.movePosition(operation, mode): a move that cannot be made
\* leaves the position where it is. EndOfLine is the end of the block, the
\* lines of the editor are not wrapped.
MovePosition(doc, cursor, operation, keepAnchor) ==
    LET b == BlockNumber(doc, cursor.position)
        target ==
            CASE operation = "StartOfBlock" -> BlockPosition(doc, b)
              [] operation = "PreviousBlock" ->
                     IF PreviousIsValid(doc, b) THEN BlockPosition(doc, b - 1)
                     ELSE cursor.position
              [] operation = "NextBlock" ->
                     IF NextIsValid(doc, b) THEN BlockPosition(doc, b + 1)
                     ELSE cursor.position
              [] operation = "Left" ->
                     IF cursor.position > 0 THEN cursor.position - 1
                     ELSE cursor.position
              [] operation = "EndOfLine" -> BlockPosition(doc, b) + Len(doc[b + 1])
              [] operation = "EndOfBlock" -> BlockPosition(doc, b) + Len(doc[b + 1])
    IN  [anchor |-> IF keepAnchor THEN cursor.anchor ELSE target,
         position |-> target]

\* QTextCursor.selectedText()
SelectedText(doc, cursor) ==
    LET from == IF cursor.anchor < cursor.position THEN cursor.anchor ELSE cursor.position
        to == IF cursor.anchor < cursor.position THEN cursor.position ELSE cursor.anchor
    IN  SubSeq(DocumentText(doc), from + 1, to)

\* The first loop of runCell: move up until the start of the document or
\* right after a line starting with ##; return is TRUE when runCell returns
\* from within the loop.
RECURSIVE MoveUp(_, _)
MoveUp(doc, cursor) ==
    LET b == BlockNumber(doc, cursor.position)
    IN  IF ~PreviousIsValid(doc, b)
        THEN [return |-> FALSE, cursor |-> cursor]
        ELSE IF IsCellSeparator(doc[b + 1])
        THEN IF ~NextIsValid(doc, b)
             THEN [return |-> TRUE, cursor |-> cursor]
             ELSE [return |-> FALSE,
                   cursor |-> MovePosition(doc, cursor, "NextBlock", FALSE)]
        ELSE MoveUp(doc, MovePosition(doc, cursor, "PreviousBlock", FALSE))

\* The second loop of runCell: move down until a line before one starting
\* with ## or to the end of the document, keeping the anchor.
RECURSIVE MoveDown(_, _)
MoveDown(doc, cursor) ==
    LET b == BlockNumber(doc, cursor.position)
    IN  IF IsCellSeparator(doc[b + 1])
        THEN MovePosition(doc, cursor, "Left", TRUE)
        ELSE IF ~NextIsValid(doc, b)
        THEN MovePosition(doc, cursor, "EndOfLine", TRUE)
        ELSE MoveDown(doc, MovePosition(doc, cursor, "NextBlock", TRUE))

\* QTextCursor.atBlockStart()
AtBlockStart(doc, position) ==
    position = BlockPosition(doc, BlockNumber(doc, position))

\* QTextCursor.selectionStart() and selectionEnd()
SelectionStart(anchor, position) == IF anchor < position THEN anchor ELSE position
SelectionEnd(anchor, position) == IF anchor < position THEN position ELSE anchor

\* RunMenu.getShellAndEditor('cell'): the messages of its warning dialog.
GetShellAndEditorMsg(shell, editor) ==
    (IF ~shell THEN <<"No shell to run code in. ">> ELSE <<>>)
        \o (IF ~editor THEN <<"No editor selected.">> ELSE <<>>)

\* RunMenu.getShellAndEditor(what, True): the messages of its warning dialog.
GetShellAndMainEditorMsg(shell, editor) ==
    (IF ~shell THEN <<"No shell to run code in. ">> ELSE <<>>)
        \o (IF ~editor THEN <<"The is no main file selected.">> ELSE <<>>)

\* The file name of the files that are opened from the file system.
sFilename == "a.py"
sMainFilename == "main.py"

\* No main file is selected; what getShellAndEditor has returned when it
\* was not called.
NoMainEditor == [valid |-> FALSE, filename |-> ""]
NothingFound == [shell |-> "None", editor |-> "None"]

\* getShellAndEditor with a warning dialog only for a missing shell.
GetShellAndEditorShellOnly(shell, editor, main, useMain) ==
    LET e == IF useMain THEN main.valid ELSE editor
    IN  [msg |-> IF ~shell THEN <<"No shell to run code in. ">> ELSE <<>>,
         return |-> [shell |-> IF shell THEN "shell" ELSE "None",
                     editor |-> IF ~e THEN "None"
                                ELSE IF useMain THEN "main" ELSE "current"]]

\* RunMenu.getShellAndEditor(what, mainEditor), given whether there is a
\* current shell, a current editor and a main editor: msg is what its
\* warning dialog says (the dialog is shown when msg is not empty) and
\* return is the pair it returns.
GetShellAndEditor(shell, editor, main, useMain) ==
    LET e == IF useMain THEN main.valid ELSE editor
    IN  [msg |-> IF useMain THEN GetShellAndMainEditorMsg(shell, e)
                 ELSE GetShellAndEditorMsg(shell, e),
         return |-> [shell |-> IF shell THEN "shell" ELSE "None",
                     editor |-> IF ~e THEN "None"
                                ELSE IF useMain THEN "main" ELSE "current"]]

\* The text of the main file.
sMainText == <<"m">>

\* editor._filename and editor.toPlainText() of the editor found.
Filename(editor, current, main) ==
    IF editor = "main" THEN main.filename ELSE current

ToPlainText(editor, doc) ==
    IF editor = "main" THEN sMainText
    ELSE ReplaceChar(DocumentText(doc), ParagraphSeparator, <<"\n">>)

\* _runScript with the shell restarted whatever saveFile returns.
RunScriptUnsaved(filename, saved) ==
    IF filename # ""
    THEN [log |-> <<[call |-> "saveFile", result |-> saved],
                    [call |-> "restart", filename |-> filename]>>,
          err |-> <<>>]
    ELSE [log |-> <<>>,
          err |-> <<"Can only run scripts that are in the file system.">>]

\* RunMenu._runScript(editor, shell) for the _filename of the editor and
\* for what iep.editors.saveFile(editor) returns when called: the calls of
\* saveFile and of shell.restart in order, and the error message.
RunScript(filename, saved) ==
    IF filename # ""
    THEN IF saved
         THEN [log |-> <<[call |-> "saveFile", result |-> TRUE],
                         [call |-> "restart", filename |-> filename]>>,
               err |-> <<>>]
         ELSE [log |-> <<[call |-> "saveFile", result |-> FALSE]>>,
               err |-> <<"Could not save the file.">>]
    ELSE [log |-> <<>>,
          err |-> <<"Can only run scripts that are in the file system.">>]

\* The warning dialog of _runScript for an error message.
ScriptWarning(err) ==
    IF err # <<>> THEN <<[title |-> "Could not run script.", text |-> err[1]]>>
    ELSE <<>>

\* The calls of shell.executeCode that runCell makes for a document and a
\* position of the text cursor.
RunCellCalls(doc, position) ==
    LET start == MovePosition(doc, [anchor |-> position, position |-> position],
                              "StartOfBlock", FALSE)
        up == MoveUp(doc, start)
        lineNumber == BlockNumber(doc, up.cursor.position)
        runCursor == MoveDown(doc, up.cursor)
        code == ReplaceChar(SelectedText(doc, runCursor), ParagraphSeparator, <<"\n">>)
    IN  IF up.return THEN <<>>
        ELSE <<[code |-> code, fname |-> sFname, lineNumber |-> lineNumber]>>

\* The calls of shell.executeCode that runSelected makes for a document and
\* the anchor and the position of the text cursor.
RunSelectedCalls(doc, anchor, position) ==
    LET start == SelectionStart(anchor, position)
        atStart == MovePosition(doc, [anchor |-> start, position |-> start],
                                "StartOfBlock", FALSE)
        lineNumber == BlockNumber(doc, atStart.position)
        atEnd == [anchor |-> atStart.anchor,
                  position |-> SelectionEnd(anchor, position)]
        runCursor == IF ~AtBlockStart(doc, atEnd.position)
                     THEN MovePosition(doc, atEnd, "EndOfBlock", TRUE)
                     ELSE atEnd
        code == ReplaceChar(SelectedText(doc, runCursor), ParagraphSeparator, <<"\n">>)
    IN  <<[code |-> code, fname |-> sFname, lineNumber |-> lineNumber]>>

CellInit ==
    /\ hasShell = FALSE
    /\ hasEditor = FALSE
    /\ document = << <<>> >>
    /\ textCursor = 0
    /\ textAnchor = 0
    /\ executed = <<>>
    /\ warning = <<>>
    /\ cellOp = [op |-> "init"]
    /\ editorFilename = ""
    /\ mainEditor = NoMainEditor
    /\ found = NothingFound
    /\ scriptLog = <<>>
    /\ scriptWarning = <<>>

\* An operation that is not one of the Run menu: nothing is looked for and
\* no script is run.
NoScriptRun ==
    /\ found' = NothingFound
    /\ scriptLog' = <<>>
    /\ scriptWarning' = <<>>

\* A shell is created, or the current shell is closed.
CreateShell ==
    /\ ~hasShell
    /\ hasShell' = TRUE
    /\ executed' = <<>>
    /\ warning' = <<>>
    /\ cellOp' = [op |-> "createShell"]
    /\ NoScriptRun
    /\ UNCHANGED <<editorFilename, mainEditor>>
    /\ UNCHANGED <<hasEditor, document, textCursor, textAnchor>>
    /\ UNCHANGED notCellVars

CloseShell ==
    /\ hasShell
    /\ hasShell' = FALSE
    /\ executed' = <<>>
    /\ warning' = <<>>
    /\ cellOp' = [op |-> "closeShell"]
    /\ NoScriptRun
    /\ UNCHANGED <<editorFilename, mainEditor>>
    /\ UNCHANGED <<hasEditor, document, textCursor, textAnchor>>
    /\ UNCHANGED notCellVars

\* A file with these lines is opened in the editor, which is the current
\* one.
OpenEditor(doc) ==
    /\ ~hasEditor
    /\ hasEditor' = TRUE
    /\ document' = doc
    /\ textCursor' = 0
    /\ textAnchor' = 0
    /\ executed' = <<>>
    /\ warning' = <<>>
    /\ cellOp' = [op |-> "openEditor"]
    /\ NoScriptRun
    /\ editorFilename' = sFilename
    /\ UNCHANGED mainEditor
    /\ UNCHANGED hasShell
    /\ UNCHANGED notCellVars

\* The editor is closed.
CloseEditor ==
    /\ hasEditor
    /\ hasEditor' = FALSE
    /\ document' = << <<>> >>
    /\ textCursor' = 0
    /\ textAnchor' = 0
    /\ executed' = <<>>
    /\ warning' = <<>>
    /\ cellOp' = [op |-> "closeEditor"]
    /\ NoScriptRun
    /\ editorFilename' = ""
    /\ UNCHANGED mainEditor
    /\ UNCHANGED hasShell
    /\ UNCHANGED notCellVars

\* The user moves the text cursor of the editor.
MoveCursor(position) ==
    /\ hasEditor
    /\ position \in 0..Len(DocumentText(document))
    /\ position # textCursor \/ textAnchor # textCursor
    /\ textCursor' = position
    /\ textAnchor' = position
    /\ executed' = <<>>
    /\ warning' = <<>>
    /\ cellOp' = [op |-> "moveCursor"]
    /\ NoScriptRun
    /\ UNCHANGED <<editorFilename, mainEditor>>
    /\ UNCHANGED <<hasShell, hasEditor, document>>
    /\ UNCHANGED notCellVars

\* The user selects text in the editor: the text cursor moves to position
\* and keeps its anchor.
SelectText(position) ==
    /\ hasEditor
    /\ position \in 0..Len(DocumentText(document))
    /\ position # textCursor
    /\ textCursor' = position
    /\ UNCHANGED textAnchor
    /\ executed' = <<>>
    /\ warning' = <<>>
    /\ cellOp' = [op |-> "selectText"]
    /\ NoScriptRun
    /\ UNCHANGED <<editorFilename, mainEditor>>
    /\ UNCHANGED <<hasShell, hasEditor, document>>
    /\ UNCHANGED notCellVars

\* RunMenu.runSelected(value). The text cursor of the editor is set back to
\* where it was.
RunSelected ==
    /\ warning' = GetShellAndEditor(hasShell, hasEditor, mainEditor, FALSE).msg
    /\ found' = GetShellAndEditor(hasShell, hasEditor, mainEditor, FALSE).return
    /\ executed' = IF ~hasShell \/ ~hasEditor THEN <<>>
                   ELSE RunSelectedCalls(document, textAnchor, textCursor)
    /\ cellOp' = [op |-> "runSelected"]
    /\ scriptLog' = <<>>
    /\ scriptWarning' = <<>>
    /\ UNCHANGED <<editorFilename, mainEditor>>
    /\ UNCHANGED <<hasShell, hasEditor, document, textCursor, textAnchor>>
    /\ UNCHANGED notCellVars

\* RunMenu.runCell(value). The text cursor of the editor is set back to
\* where it was.
RunCell ==
    /\ warning' = GetShellAndEditor(hasShell, hasEditor, mainEditor, FALSE).msg
    /\ found' = GetShellAndEditor(hasShell, hasEditor, mainEditor, FALSE).return
    /\ executed' = IF ~hasShell \/ ~hasEditor THEN <<>>
                   ELSE RunCellCalls(document, textCursor)
    /\ cellOp' = [op |-> "runCell", line |-> BlockNumber(document, textCursor)]
    /\ scriptLog' = <<>>
    /\ scriptWarning' = <<>>
    /\ UNCHANGED <<editorFilename, mainEditor>>
    /\ UNCHANGED <<hasShell, hasEditor, document, textCursor, textAnchor>>
    /\ UNCHANGED notCellVars

\* A new file, which is not in the file system, is made in the editor.
NewEditor ==
    /\ ~hasEditor
    /\ hasEditor' = TRUE
    /\ document' = << <<>> >>
    /\ textCursor' = 0
    /\ textAnchor' = 0
    /\ editorFilename' = ""
    /\ executed' = <<>>
    /\ warning' = <<>>
    /\ cellOp' = [op |-> "newEditor"]
    /\ NoScriptRun
    /\ UNCHANGED <<hasShell, mainEditor>>
    /\ UNCHANGED notCellVars

\* A file is made the main file, or the main file is not one any more.
SelectMainFile(filename) ==
    /\ mainEditor # [valid |-> TRUE, filename |-> filename]
    /\ mainEditor' = [valid |-> TRUE, filename |-> filename]
    /\ executed' = <<>>
    /\ warning' = <<>>
    /\ cellOp' = [op |-> "selectMainFile"]
    /\ NoScriptRun
    /\ UNCHANGED <<hasShell, hasEditor, document, textCursor, textAnchor, editorFilename>>
    /\ UNCHANGED notCellVars

UnselectMainFile ==
    /\ mainEditor.valid
    /\ mainEditor' = NoMainEditor
    /\ executed' = <<>>
    /\ warning' = <<>>
    /\ cellOp' = [op |-> "unselectMainFile"]
    /\ NoScriptRun
    /\ UNCHANGED <<hasShell, hasEditor, document, textCursor, textAnchor, editorFilename>>
    /\ UNCHANGED notCellVars

\* RunMenu.runFile(runMode, givenEditor) with runMode = (asScript, mainFile);
\* givenEditor is None or one of the editors there are; saved is what
\* iep.editors.saveFile returns if it is called.
RunFile(asScript, mainFile, givenEditor, saved) ==
    /\ givenEditor = "current" => hasEditor
    /\ givenEditor = "main" => mainEditor.valid
    /\ LET got == GetShellAndEditor(hasShell, hasEditor, mainEditor, mainFile)
           shell == got.return.shell
           editor == IF givenEditor # "None" THEN givenEditor ELSE got.return.editor
           script == RunScript(Filename(editor, editorFilename, mainEditor), saved)
       IN  /\ warning' = got.msg
           /\ found' = got.return
           /\ IF shell = "None" \/ editor = "None"
              THEN /\ executed' = <<>>
                   /\ scriptLog' = <<>>
                   /\ scriptWarning' = <<>>
              ELSE IF asScript
              THEN /\ executed' = <<>>
                   /\ scriptLog' = script.log
                   /\ scriptWarning' = ScriptWarning(script.err)
              ELSE /\ executed' = <<[code |-> ToPlainText(editor, document),
                                     fname |-> sFname, lineNumber |-> -1]>>
                   /\ scriptLog' = <<>>
                   /\ scriptWarning' = <<>>
           /\ cellOp' = [op |-> "runFile", asScript |-> asScript, mainFile |-> mainFile,
                         editor |-> editor, saved |-> saved]
    /\ UNCHANGED <<hasShell, hasEditor, document, textCursor, textAnchor,
                   editorFilename, mainEditor>>
    /\ UNCHANGED notCellVars

CellNext ==
    \/ CreateShell
    \/ CloseShell
    \/ \E doc \in Documents : OpenEditor(doc)
    \/ CloseEditor
    \/ \E position \in 0..(MaxLines * 5) : MoveCursor(position)
    \/ \E position \in 0..(MaxLines * 5) : SelectText(position)
    \/ RunSelected
    \/ RunCell

InitCell == CellInit /\ KeyIdle /\ PathIdle /\ ItemIdle /\ TreeIdle

\* Files are opened and the cell at the text cursor is run.
SpecCell == InitCell /\ [][CellNext]_vars

\* The documents of the files that are run as a whole.
RunDocuments == { << <<"x">> >>, << <<"#", "#">>, <<"x">> >> }

RunNext ==
    \/ CreateShell
    \/ CloseShell
    \/ \E doc \in RunDocuments : OpenEditor(doc)
    \/ NewEditor
    \/ CloseEditor
    \/ \E filename \in {"", sMainFilename} : SelectMainFile(filename)
    \/ UnselectMainFile
    \/ RunSelected
    \/ RunCell
    \/ \E asScript, mainFile, saved \in BOOLEAN, givenEditor \in {"None", "current", "main"} :
           RunFile(asScript, mainFile, givenEditor, saved)

\* Shells and editors come and go and the items of the Run menu are used.
SpecRun == InitCell /\ [][RunNext]_vars

\* The lines (from 0) of a document that start with ## after whitespace.
SeparatorLines(doc) == {b \in 0..(Len(doc) - 1) : IsCellSeparator(doc[b + 1])}

\* The nearest ## line at or above line c, -1 for the start of the document.
CellTop(doc, c) ==
    IF \E b \in SeparatorLines(doc) : b <= c
    THEN CHOOSE b \in SeparatorLines(doc) :
             b <= c /\ \A h \in SeparatorLines(doc) : h <= c => h <= b
    ELSE -1

\* The next ## line below line top, Len(doc) for the end of the document.
CellBottom(doc, top) ==
    IF \E b \in SeparatorLines(doc) : b > top
    THEN CHOOSE b \in SeparatorLines(doc) :
             b > top /\ \A h \in SeparatorLines(doc) : h > top => b <= h
    ELSE Len(doc)

\* C10: runCell, with a shell and an editor, passes to shell.executeCode
\* the text of the lines strictly between the nearest ## line at or above the
\* cursor line (or the start of the document) and the next ## line below (or
\* the end of the document), with the line number of the first of them; with
\* the cursor on a ## line that is the last line, nothing is executed.
C10_RunCellExecutesCell ==
    (cellOp.op = "runCell" /\ hasShell /\ hasEditor) =>
        LET top == CellTop(document, cellOp.line)
            bottom == CellBottom(document, top)
        IN  IF top = Len(document) - 1
            THEN executed = <<>>
            ELSE executed =
                     <<[code |-> Join(SubSeq(document, top + 2, bottom), <<"\n">>),
                        fname |-> sFname,
                        lineNumber |-> top + 1]>>

\* The end of the lines that C11 says are run, for a selection from start
\* to end: the end of the line of the selection end, or, when a selection
\* that is not empty ends at the first position of a line, the end of the
\* line before.
WholeLinesEnd(doc, start, end) ==
    IF start # end /\ AtBlockStart(doc, end)
    THEN end - 1
    ELSE BlockPosition(doc, BlockNumber(doc, end)) + Len(doc[BlockNumber(doc, end) + 1])

\* The text of the document from position from to position to.
TextBetween(doc, from, to) ==
    ReplaceChar(SubSeq(DocumentText(doc), from + 1, to), ParagraphSeparator, <<"\n">>)

\* C11: runSelected, with a shell and an editor, passes to shell.executeCode
\* whole lines: the text from the beginning of the line of the selection
\* start to the end of the line of the selection end (to the end of the line
\* before when a selection that is not empty ends at a line's first
\* position; the line break behind that line may be part of the text), for
\* an empty selection the whole line of the cursor, and the number of the
\* first line run.
C11_RunSelectedWholeLines ==
    (cellOp.op = "runSelected" /\ hasShell /\ hasEditor) =>
        LET start == SelectionStart(textAnchor, textCursor)
            end == SelectionEnd(textAnchor, textCursor)
            first == BlockNumber(document, start)
            from == BlockPosition(document, first)
            to == WholeLinesEnd(document, start, end)
        IN  /\ Len(executed) = 1
            /\ executed[1].lineNumber = first
            /\ executed[1].fname = sFname
            /\ \/ executed[1].code = TextBetween(document, from, to)
               \/ /\ start # end /\ AtBlockStart(document, end)
                  /\ executed[1].code = TextBetween(document, from, end)

\* The operations of the Run menu that call getShellAndEditor, and whether
\* they ask for the main editor.
CallsGetShellAndEditor == cellOp.op \in {"runSelected", "runCell", "runFile"}
AsksMainEditor == cellOp.op = "runFile" /\ cellOp.mainFile

\* C12: getShellAndEditor shows its warning dialog exactly when there is no
\* current shell or the editor asked for (the main editor when mainEditor is
\* true, the current editor otherwise) is missing, and returns the shell and
\* the editor it found, None for a missing one.
C12_WarningIffMissing ==
    CallsGetShellAndEditor =>
        LET editorThere == IF AsksMainEditor THEN mainEditor.valid ELSE hasEditor
        IN  /\ (warning # <<>>) <=> (~hasShell \/ ~editorThere)
            /\ found.shell = IF hasShell THEN "shell" ELSE "None"
            /\ found.editor = IF ~editorThere THEN "None"
                              ELSE IF AsksMainEditor THEN "main" ELSE "current"

\* The main file was run with a shell but without a main editor, while there
\* is a current editor: the dialog was shown and (shell, None) returned.
C12_Witness ==
    /\ cellOp.op = "runFile" /\ cellOp.mainFile
    /\ hasShell /\ hasEditor /\ ~mainEditor.valid
    /\ warning = <<"The is no main file selected.">>
    /\ found = [shell |-> "shell", editor |-> "None"]

\* The last operation ran a file as script: runFile with asScript true found
\* a shell and has an editor, so that it called _runScript.
RanAsScript ==
    /\ cellOp.op = "runFile" /\ cellOp.asScript
    /\ found.shell # "None" /\ cellOp.editor # "None"

\* The calls of shell.restart among the calls made.
Restarts(log) == {i \in 1..Len(log) : log[i].call = "restart"}

\* C13: when a file is run as script, the shell is restarted, with the file
\* name of the editor, only after iep.editors.saveFile has returned success;
\* when the editor has no file name or the save fails, a 'Could not run
\* script.' warning is shown and the shell is neither restarted nor sent code.
C13_RestartOnlyAfterSave ==
    RanAsScript =>
        LET filename == Filename(cellOp.editor, editorFilename, mainEditor)
        IN  /\ \A i \in Restarts(scriptLog) :
                   /\ scriptLog[i].filename = filename
                   /\ \E j \in 1..(i - 1) :
                          scriptLog[j].call = "saveFile" /\ scriptLog[j].result
            /\ (filename = "" \/ ~cellOp.saved) =>
                   /\ Len(scriptWarning) = 1
                   /\ scriptWarning[1].title = "Could not run script."
                   /\ Restarts(scriptLog) = {}
                   /\ executed = <<>>

\* The current file, which has a file name, was run as script and saved, and
\* the shell was restarted with its name after that, without a warning.
C13_Witness ==
    /\ RanAsScript
    /\ cellOp.editor = "current" /\ editorFilename = sFilename /\ cellOp.saved
    /\ scriptLog = <<[call |-> "saveFile", result |-> TRUE],
                     [call |-> "restart", filename |-> sFilename]>>
    /\ scriptWarning = <<>>
    /\ executed = <<>>

----
\* ------------------------------------------- the tree of the key mappings

\* An action of a menu as its build method adds it: an item, a separator, or
\* the action of a submenu.
Item(text) == [text |-> text, menu |-> ""]
Separator == [text |-> "", menu |-> ""]
SubMenu(title) == [text |-> title, menu |-> title]

\* The File menu and the View menu with their submenus, as built.
TreeMenus ==
    ("File" :> << Item("New"), Item("Open"), Item("Save"), Item("Save as"),
                  Item("Save all"), Item("Close"), Item("Close all"), Separator,
                  SubMenu("Indentation"), Separator, Item("Restart IEP"),
                  Item("Quit IEP") >>)
    @@ ("Indentation" :> << Item("Use tabs"), Item("Use spaces"), Separator,
                            Item("2 spaces"), Item("3 spaces"), Item("4 spaces"),
                            Item("5 spaces"), Item("6 spaces"), Item("7 spaces"),
                            Item("8 spaces") >>)
    @@ ("View" :> << Item("Select shell"), Item("Select editor"),
                     Item("Select previous file"), Separator,
                     Item("Show whitespace"), Item("Show line endings"),
                     Item("Show indentation guides"), Separator,
                     Item("Wrap long lines"), Item("Highlight current line"),
                     Separator, SubMenu("Edge column"), SubMenu("Qt theme") >>)
    @@ ("Edge column" :> << Item("None"), Item("60"), Item("70"), Item("80"),
                            Item("90"), Item("100"), Item("110"), Item("120") >>)
    @@ ("Qt theme" :> << Item("Cleanlooks+ (default)"), Item("Windows") >>)

\* The parent that each menu was made with: Menu.__init__(parent, name).
MenuParent ==
    ("File" :> "menuBar") @@ ("View" :> "menuBar") @@ ("Indentation" :> "File")
    @@ ("Edge column" :> "View") @@ ("Qt theme" :> "View")

\* The menus that are a tab of the dialog: menuBar._menus.
RootMenus == {"File", "View"}

\* The objects: a QMenu, and a QAction, which is the action at a row (from
\* 0) of the menu that made it. NoObject is None.
QMenu(title) == [class |-> "QMenu", title |-> title]
QAction(menu, row) == [class |-> "QAction", menu |-> menu, row |-> row]
NoObject == [class |-> "None"]

\* menu.actions()
Actions(menu) ==
    [k \in 1..Len(TreeMenus[menu.title]) |-> QAction(menu.title, k - 1)]

\* action.menu(): the submenu that the action is the action of, or None.
ActionMenu(action) ==
    LET entry == TreeMenus[action.menu][action.row + 1]
    IN  IF entry.menu # "" THEN QMenu(entry.menu) ELSE NoObject

\* item.parent() of a QAction or a QMenu.
ObjectParent(item) ==
    IF item.class = "QAction" THEN QMenu(item.menu)
    ELSE QMenu(MenuParent[item.title])

\* L.index(x)
ListIndex(L, x) ==
    (CHOOSE k \in 1..Len(L) : L[k] = x /\ \A h \in 1..(k - 1) : L[h] # x) - 1

\* QtCore.QModelIndex() and createIndex(row, column, item)
InvalidIndex == [valid |-> FALSE, row |-> -1, column |-> -1, item |-> NoObject]
CreateIndex(row, column, item) ==
    [valid |-> TRUE, row |-> row, column |-> column, item |-> item]

\* KeyMapModel.index(row, column, parent)
ModelIndex(root, row, column, parent) ==
    LET parentMenu == IF ~parent.valid THEN root ELSE parent.item
        childAction == Actions(parentMenu)[row + 1]
    IN  CreateIndex(row, column,
                    IF ActionMenu(childAction) # NoObject
                    THEN ActionMenu(childAction) ELSE childAction)

\* KeyMapModel.parent(index)
ModelParent(root, index) ==
    IF ~index.valid THEN InvalidIndex
    ELSE LET pitem == ObjectParent(index.item)
         IN  IF pitem = root THEN InvalidIndex
             ELSE LET L == Actions(ObjectParent(pitem))
                  IN  CreateIndex(IF \E k \in 1..Len(L) : L[k] = pitem
                                  THEN ListIndex(L, pitem) ELSE 0,
                                  0, pitem)

\* KeyMapModel.rowCount(parent) and hasChildren(index)
RowCount(root, parent) ==
    IF parent.valid THEN Len(Actions(parent.item)) ELSE Len(Actions(root))
HasChildren(index) == index.row < 0 \/ index.item.class = "QMenu"

\* The greatest number of rows of a menu, and the columns of the tree.
MaxRows == 13
Columns == 0..2

TreeInit ==
    /\ treeRoot = NoObject
    /\ treeFrom = InvalidIndex
    /\ treeIndex = InvalidIndex
    /\ treeParent = InvalidIndex
    /\ treeOp = "init"

\* KeymappingDialog.__init__: a model is made for a menu of the menu bar,
\* model.setRootMenu(menu); the view is at its root.
SetRootMenu(menu) ==
    /\ treeRoot # QMenu(menu) \/ treeIndex.valid
    /\ treeRoot' = QMenu(menu)
    /\ treeFrom' = InvalidIndex
    /\ treeIndex' = InvalidIndex
    /\ treeParent' = InvalidIndex
    /\ treeOp' = "setRootMenu"
    /\ UNCHANGED notTreeVars

\* The view asks for index(row, column, parent) under the index it has,
\* which is the root or has children, for a row of it.
TreeIndex(row, column) ==
    /\ treeRoot # NoObject
    /\ HasChildren(treeIndex)
    /\ row < RowCount(treeRoot, treeIndex)
    /\ treeFrom' = treeIndex
    /\ treeIndex' = ModelIndex(treeRoot, row, column, treeIndex)
    /\ treeParent' = InvalidIndex
    /\ treeOp' = "index"
    /\ UNCHANGED treeRoot
    /\ UNCHANGED notTreeVars

\* The view asks for parent(index) of the index it has.
TreeParent ==
    /\ treeOp = "index"
    /\ treeParent' = ModelParent(treeRoot, treeIndex)
    /\ treeOp' = "parent"
    /\ UNCHANGED <<treeRoot, treeFrom, treeIndex>>
    /\ UNCHANGED notTreeVars

TreeNext ==
    \/ \E menu \in RootMenus : SetRootMenu(menu)
    \/ \E row \in 0..(MaxRows - 1), column \in Columns : TreeIndex(row, column)
    \/ TreeParent

InitTree == TreeInit /\ KeyIdle /\ PathIdle /\ ItemIdle /\ CellIdle

\* The tree views of the key mapping dialog walk their models.
SpecTree == InitTree /\ [][TreeNext]_vars

\* C14: parent(index(r, c, p)) has the row and the item of p for every valid
\* parent index p, and is the invalid index for every row of the root menu.
C14_ParentOfIndexIsParent ==
    treeOp = "parent" =>
        IF treeFrom.valid
        THEN /\ treeParent.valid
             /\ treeParent.row = treeFrom.row
             /\ treeParent.item = treeFrom.item
        ELSE ~treeParent.valid

====
